---- MODULE Spec2Model ----
(***************************************************************************)
(* The donation webhook of server.js: POST /api/webhooks/paypal receives a *)
(* payment event, reads the donor's data from the event's custom_id, asks  *)
(* the generative-text service for a thank-you message (with a fixed       *)
(* fallback) and sends the e-mail through the mail transport.              *)
(*                                                                         *)
(* Every delivery is one run of the async handler.  A run is suspended at  *)
(* its three awaits (fetch, apiResponse.json(), transporter.sendMail); the *)
(* code between two awaits runs without interruption and is one action.    *)
(*                                                                         *)
(* Text is a sequence of tokens: the literal pieces of the code's template *)
(* strings are one token each, whitespace is one token per character.      *)
(***************************************************************************)
EXTENDS Integers, Sequences, FiniteSets, TLC

(***************************************************************************)
(* JavaScript values, as far as JSON can carry them, and the abrupt        *)
(* completion of an expression (a thrown exception).                       *)
(***************************************************************************)
Undef == [t |-> "undefined"]
Null == [t |-> "null"]
Str(s) == [t |-> "string", s |-> s]
Lit(x) == Str(<<x>>)
Obj(p) == [t |-> "object", p |-> p]
Arr(a) == [t |-> "array", a |-> a]
Num(n) == [t |-> "number", n |-> n]
Thrown(e) == [t |-> "throw", e |-> e]
IsThrown(v) == v.t = "throw"

\* v.k : reading a property of undefined or null is a TypeError.
Get(v, k) ==
    IF IsThrown(v) THEN v
    ELSE IF v.t \in {"undefined", "null"} THEN Thrown("TypeError")
    ELSE IF v.t = "object" /\ k \in DOMAIN v.p THEN v.p[k]
    ELSE Undef

\* v[i], with i counted from 0.
Index(v, i) ==
    IF IsThrown(v) THEN v
    ELSE IF v.t \in {"undefined", "null"} THEN Thrown("TypeError")
    ELSE IF v.t = "array" /\ (i + 1) \in DOMAIN v.a THEN v.a[i + 1]
    ELSE IF v.t = "string" /\ (i + 1) \in DOMAIN v.s THEN Str(<<v.s[i + 1]>>)
    ELSE Undef

\* The truth value of v in a condition.
Truthy(v) ==
    CASE v.t \in {"undefined", "null"} -> FALSE
      [] v.t = "string" -> v.s # <<>>
      [] v.t = "number" -> v.n # 0
      [] OTHER -> TRUE

\* v.length > 0, for a v that is neither undefined nor null.
HasPositiveLength(v) ==
    CASE v.t = "array" -> Len(v.a) > 0
      [] v.t = "string" -> Len(v.s) > 0
      [] OTHER -> FALSE

\* Conversion to a string, as a template literal does it.  An object out of
\* JSON.parse holds no function, so an own property toString is not callable
\* and the inherited valueOf returns the object: the conversion throws.  An
\* array is joined with commas, undefined and null elements being empty.
RECURSIVE JsToString(_)
RECURSIVE JoinFrom(_, _)
JoinFrom(a, i) ==
    IF i > Len(a) THEN Str(<<>>)
    ELSE LET e == IF a[i].t \in {"undefined", "null"} THEN Str(<<>>) ELSE JsToString(a[i])
             rest == JoinFrom(a, i + 1)
         IN  IF IsThrown(e) THEN e
             ELSE IF IsThrown(rest) THEN rest
             ELSE Str(e.s \o (IF i < Len(a) THEN <<",">> ELSE <<>>) \o rest.s)

JsToString(v) ==
    CASE IsThrown(v) -> v
      [] v.t = "string" -> v
      [] v.t = "undefined" -> Lit("undefined")
      [] v.t = "null" -> Lit("null")
      [] v.t = "number" -> Lit(ToString(v.n))
      [] v.t = "object" ->
            IF "toString" \in DOMAIN v.p THEN Thrown("TypeError")
            ELSE Lit("[object Object]")
      [] v.t = "array" -> JoinFrom(v.a, 1)

RECURSIVE Flatten(_)
Flatten(ss) ==
    IF ss = <<>> THEN <<>> ELSE Head(ss).s \o Flatten(Tail(ss))

\* A template literal: the parts are converted from left to right and joined;
\* the first conversion that throws ends the evaluation.
Cat(parts) ==
    LET strs == [i \in DOMAIN parts |-> JsToString(parts[i])]
    IN  IF \E i \in DOMAIN parts : IsThrown(strs[i])
        THEN strs[CHOOSE i \in DOMAIN parts :
                     /\ IsThrown(strs[i])
                     /\ \A j \in DOMAIN parts : IsThrown(strs[j]) => i <= j]
        ELSE Str(Flatten(strs))

Whitespace == {" ", "\n", "\t"}

RECURSIVE TrimStart(_)
TrimStart(s) ==
    IF s # <<>> /\ Head(s) \in Whitespace THEN TrimStart(Tail(s)) ELSE s

RECURSIVE TrimEnd(_)
TrimEnd(s) ==
    IF s # <<>> /\ s[Len(s)] \in Whitespace
    THEN TrimEnd(SubSeq(s, 1, Len(s) - 1))
    ELSE s

\* String.prototype.trim
Trim(s) == TrimEnd(TrimStart(s))

\* v.trim() : only a string has the method.
TrimCall(v) ==
    CASE IsThrown(v) -> v
      [] v.t = "string" -> Str(Trim(v.s))
      [] OTHER -> Thrown("TypeError")

(***************************************************************************)
(* generateThankYouMessage                                                 *)
(***************************************************************************)
GEMINI_API_KEY == Lit("<GEMINI_API_KEY>")
EMAIL_FROM == Lit("<EMAIL_FROM>")

PromptHead == "Write a short, warm, and personal thank you message for a person named "
PromptDonated == " who just donated $"
PromptCause == ". This donation is for our \"HopeSpring Foundation\" fundraiser, which provides school supplies for underprivileged children. Mention the impact on the children."
PromptMessageOpen == " The donor also left this kind message: \""
PromptMessageClose == "\". Please subtly weave a reference to their message into your thank you."
PromptCap == " Keep the tone grateful and heartfelt. Two sentences maximum."

\* BuildPrompt without the test of the message.
BuildPrompt_AlwaysMessage(name, amount, message) ==
    LET p1 == Cat(<<Lit(PromptHead), name, Lit(PromptDonated), amount, Lit(PromptCause)>>)
        p2 == Cat(<<p1, Lit(PromptMessageOpen), message, Lit(PromptMessageClose)>>)
    IN  Cat(<<p2, Lit(PromptCap)>>)

\* The prompt, or the exception its construction throws.
BuildPrompt(name, amount, message) ==
    LET p1 == Cat(<<Lit(PromptHead), name, Lit(PromptDonated), amount, Lit(PromptCause)>>)
        p2 == IF IsThrown(p1) THEN p1
              ELSE IF Truthy(message)
              THEN Cat(<<p1, Lit(PromptMessageOpen), message, Lit(PromptMessageClose)>>)
              ELSE p1
    IN  Cat(<<p2, Lit(PromptCap)>>)

\* The request fetch is called with.
GeminiRequest(prompt) ==
    [url |-> Cat(<<Lit("https://generativelanguage.googleapis.com/v1beta/models/gemini-1.5-flash-latest:generateContent?key="), GEMINI_API_KEY>>),
     method |-> "POST",
     text |-> prompt]

\* ExtractText with the call of trim() left out.
ExtractText_Untrimmed(data) ==
    LET c == Get(data, "candidates")
    IN  IF IsThrown(c) THEN c
        ELSE IF Truthy(c) /\ HasPositiveLength(c)
        THEN Get(Index(Get(Get(Index(c, 0), "content"), "parts"), 0), "text")
        ELSE Thrown("Error")

\* The value returned from the parsed response body, or the exception thrown.
ExtractText(data) ==
    LET c == Get(data, "candidates")
    IN  IF IsThrown(c) THEN c
        ELSE IF Truthy(c) /\ HasPositiveLength(c)
        THEN TrimCall(Get(Index(Get(Get(Index(c, 0), "content"), "parts"), 0), "text"))
        ELSE Thrown("Error")

FallbackHead == "Thank you so much for your generous donation of $"
FallbackTail == "! Your support means the world to us and will make a real difference."

\* The message of the catch block.
FallbackMessage(name, amount) ==
    Cat(<<Lit(FallbackHead), amount, Lit(", "), name, Lit(FallbackTail)>>)

\* CatchFallback with the reason of the failure added to the message.
CatchFallback_WithReason(x, name, amount) ==
    IF IsThrown(x)
    THEN Cat(<<FallbackMessage(name, amount), Lit(" ("), Lit(x.e), Lit(")")>>)
    ELSE x

\* CatchFallback with the exception passed on instead of caught.
CatchFallback_Rethrow(x, name, amount) == x

\* The catch block of generateThankYouMessage: what the function returns for
\* the outcome x of its try block.
CatchFallback(x, name, amount) ==
    IF IsThrown(x) THEN FallbackMessage(name, amount) ELSE x

(***************************************************************************)
(* The custom_id texts of the model and what JSON.parse makes of them.     *)
(***************************************************************************)
EmptyObj == Obj([k \in {} |-> Undef])

TxtAda == "{\"name\":\"Ada\",\"email\":\"ada@x.com\"}"
TxtAdaMessage == "{\"name\":\"Ada\",\"email\":\"ada@x.com\",\"message\":\"Keep going\"}"
TxtAdaEmptyMessage == "{\"name\":\"Ada\",\"email\":\"ada@x.com\",\"message\":\"\"}"
TxtAdaObjectMessage == "{\"name\":\"Ada\",\"email\":\"ada@x.com\",\"message\":{\"toString\":null}}"
TxtNoName == "{\"email\":\"ada@x.com\"}"
TxtNoEmail == "{\"name\":\"Ada\"}"
TxtEmptyEmail == "{\"name\":\"Ada\",\"email\":\"\"}"
TxtEmptyName == "{\"name\":\"\",\"email\":\"ada@x.com\"}"
TxtObjectName == "{\"name\":{\"toString\":null},\"email\":\"ada@x.com\"}"
TxtBob == "{\"name\":\"Bob\",\"email\":\"bob@y.org\"}"
TxtNull == "null"
TxtNotJson == "not-json"

JsonValue ==
    (TxtAda :> Obj([name |-> Lit("Ada"), email |-> Lit("ada@x.com")]))
    @@ (TxtAdaMessage :> Obj([name |-> Lit("Ada"), email |-> Lit("ada@x.com"),
                              message |-> Lit("Keep going")]))
    @@ (TxtAdaEmptyMessage :> Obj([name |-> Lit("Ada"), email |-> Lit("ada@x.com"),
                                   message |-> Str(<<>>)]))
    @@ (TxtAdaObjectMessage :> Obj([name |-> Lit("Ada"), email |-> Lit("ada@x.com"),
                                    message |-> Obj([toString |-> Null])]))
    @@ (TxtNoName :> Obj([email |-> Lit("ada@x.com")]))
    @@ (TxtNoEmail :> Obj([name |-> Lit("Ada")]))
    @@ (TxtEmptyEmail :> Obj([name |-> Lit("Ada"), email |-> Str(<<>>)]))
    @@ (TxtEmptyName :> Obj([name |-> Str(<<>>), email |-> Lit("ada@x.com")]))
    @@ (TxtObjectName :> Obj([name |-> Obj([toString |-> Null]), email |-> Lit("ada@x.com")]))
    @@ (TxtBob :> Obj([name |-> Lit("Bob"), email |-> Lit("bob@y.org")]))
    @@ (TxtNull :> Null)

\* JSONParse with an empty object in place of the SyntaxError.
JSONParse_Lenient(v) ==
    LET txt == JsToString(v)
    IN  IF IsThrown(txt) THEN txt
        ELSE IF Len(txt.s) = 1 /\ txt.s[1] \in DOMAIN JsonValue THEN JsonValue[txt.s[1]]
        ELSE EmptyObj

\* JSON.parse(v): the argument is converted to a string; a text that is not
\* JSON (among them "undefined", the text of a missing argument) is a
\* SyntaxError.
JSONParse(v) ==
    LET txt == JsToString(v)
    IN  IF IsThrown(txt) THEN txt
        ELSE IF Len(txt.s) = 1 /\ txt.s[1] \in DOMAIN JsonValue THEN JsonValue[txt.s[1]]
        ELSE Thrown("SyntaxError")

(***************************************************************************)
(* The webhook handler                                                     *)
(***************************************************************************)
CaptureCompleted == "PAYMENT.CAPTURE.COMPLETED"

\* IsCaptureCompleted with a test for the presence of a type only.
IsCaptureCompleted_AnyType(ev) == Truthy(Get(ev, "event_type"))

\* event.event_type === 'PAYMENT.CAPTURE.COMPLETED'
IsCaptureCompleted(ev) == Get(ev, "event_type") = Lit(CaptureCompleted)

Cause == "HopeSpring Foundation's Children's Fund"

\* The constants of the try block up to the call of generateThankYouMessage,
\* or the first exception thrown on the way.
ReadDonation(ev) ==
    LET capture == Get(ev, "resource")
        amount == Get(Get(capture, "amount"), "value")
        purchase_unit == Index(Get(capture, "purchase_units"), 0)
        donorInfo == JSONParse(Get(purchase_unit, "custom_id"))
        name == Get(donorInfo, "name")
        email == Get(donorInfo, "email")
        message == Get(donorInfo, "message")
        logged == Cat(<<Lit("Processing donation: "), amount, Lit(" from "), name,
                        Lit(" ("), email, Lit(")")>>)
    IN  IF IsThrown(amount) THEN amount
        ELSE IF IsThrown(purchase_unit) THEN purchase_unit
        ELSE IF IsThrown(donorInfo) THEN donorInfo
        ELSE IF IsThrown(name) THEN name
        ELSE IF IsThrown(logged) THEN logged
        ELSE [t |-> "donation", capture |-> capture, amount |-> amount,
              name |-> name, email |-> email, message |-> message]

HtmlDear == "<!DOCTYPE html> ... <h1>Thank You!</h1> ... <p>Dear "
HtmlGrateful == ",</p><p>We are incredibly grateful for your recent contribution to <strong>HopeSpring Foundation</strong>. Your support makes a real difference and helps us continue our mission.</p><div class=\"donation-details\"><p><strong>Amount:</strong> $"
HtmlCause == "</p><p><strong>Cause:</strong> "
HtmlTransaction == "</p><p><strong>Transaction ID:</strong> "
HtmlMessageOpen == "</p></div><div class=\"gemini-message\"><p>\""
HtmlMessageClose == "\"</p></div><p>Your kindness is what fuels our work. Thank you once again for your generous support.</p> ... </html>"

\* MailOptions with the donor's name where the generated message belongs.
MailOptions_NameForMessage(don, aiMessage) ==
    LET from == Cat(<<Lit("\"HopeSpring Foundation\" <"), EMAIL_FROM, Lit(">")>>)
        html == Cat(<<Lit(HtmlDear), don.name, Lit(HtmlGrateful), don.amount,
                      Lit(HtmlCause), Lit(Cause), Lit(HtmlTransaction),
                      Get(don.capture, "id"), Lit(HtmlMessageOpen), don.name,
                      Lit(HtmlMessageClose)>>)
    IN  IF IsThrown(from) THEN from
        ELSE IF IsThrown(html) THEN html
        ELSE [t |-> "mail", from |-> from, to |-> don.email,
              subject |-> Lit("Your incredible support for the HopeSpring Foundation!"),
              html |-> html]

\* The argument of transporter.sendMail, or the exception thrown building it.
MailOptions(don, aiMessage) ==
    LET from == Cat(<<Lit("\"HopeSpring Foundation\" <"), EMAIL_FROM, Lit(">")>>)
        html == Cat(<<Lit(HtmlDear), don.name, Lit(HtmlGrateful), don.amount,
                      Lit(HtmlCause), Lit(Cause), Lit(HtmlTransaction),
                      Get(don.capture, "id"), Lit(HtmlMessageOpen), aiMessage,
                      Lit(HtmlMessageClose)>>)
    IN  IF IsThrown(from) THEN from
        ELSE IF IsThrown(html) THEN html
        ELSE [t |-> "mail", from |-> from, to |-> don.email,
              subject |-> Lit("Your incredible support for the HopeSpring Foundation!"),
              html |-> html]

(***************************************************************************)
(* What the model delivers and what the external services answer.          *)
(***************************************************************************)
\* Whitespace around a candidate text: at most MaxPad characters on a side.
MaxPad == 1

Deliveries == {"d1", "d2"}

Capture(custom) ==
    Obj([id |-> Lit("TX1"), amount |-> Obj([value |-> Lit("25.00")]),
         purchase_units |-> Arr(<<Obj([custom_id |-> custom])>>)])

\* A second donation, of another donor.
BobEvent ==
    Obj([event_type |-> Lit(CaptureCompleted),
         resource |-> Obj([id |-> Lit("TX2"), amount |-> Obj([value |-> Lit("5.00")]),
                           purchase_units |-> Arr(<<Obj([custom_id |-> Lit(TxtBob)])>>)])])

CustomIdTexts ==
    {TxtAda, TxtAdaMessage, TxtAdaEmptyMessage, TxtAdaObjectMessage, TxtNoName,
     TxtNoEmail, TxtEmptyEmail, TxtEmptyName, TxtObjectName, TxtNull, TxtNotJson}

\* The bodies POSTed to the webhook.
Events ==
    {Obj([event_type |-> Lit(CaptureCompleted), resource |-> Capture(Lit(x))]) :
        x \in CustomIdTexts}
    \cup
    {Obj([event_type |-> Lit(CaptureCompleted)]),
     Obj([event_type |-> Lit(CaptureCompleted), resource |-> Obj([id |-> Lit("TX1")])]),
     Obj([event_type |-> Lit(CaptureCompleted),
          resource |-> Obj([id |-> Lit("TX1"), amount |-> Obj([value |-> Lit("25.00")])])]),
     Obj([event_type |-> Lit(CaptureCompleted),
          resource |-> Obj([id |-> Lit("TX1"), amount |-> Obj([value |-> Lit("25.00")]),
                            purchase_units |-> Arr(<<>>)])]),
     Obj([event_type |-> Lit(CaptureCompleted),
          resource |-> Obj([id |-> Lit("TX1"), amount |-> Obj([value |-> Lit("25.00")]),
                            purchase_units |-> Arr(<<EmptyObj>>)])]),
     Obj([event_type |-> Lit("CHECKOUT.ORDER.APPROVED"), resource |-> Capture(Lit(TxtAda))]),
     Obj([event_type |-> Lit("CHECKOUT.ORDER.APPROVED")]),
     EmptyObj,
     BobEvent}

RECURSIVE Pad(_)
Pad(n) == IF n = 0 THEN <<>> ELSE <<" ">> \o Pad(n - 1)

\* Candidate texts: a sentence with whitespace around it, or whitespace only.
CandidateTexts ==
    {Pad(i) \o <<"Thank you, Ada!">> \o Pad(j) : i, j \in 0..MaxPad}
    \cup {Pad(i) : i \in 0..MaxPad}

Candidate(text) == Obj([content |-> Obj([parts |-> Arr(<<Obj([text |-> text])>>)])])

\* The parsed bodies of a success response of the generative-text service.
ResponseBodies ==
    {Obj([candidates |-> Arr(<<Candidate(Str(x))>>)]) : x \in CandidateTexts}
    \cup
    {Obj([candidates |-> Arr(<<Candidate(Lit("First.")), Candidate(Lit("Second."))>>)]),
     Null,
     EmptyObj,
     Obj([candidates |-> Arr(<<>>)]),
     Obj([candidates |-> Arr(<<EmptyObj>>)]),
     Obj([candidates |-> Arr(<<Obj([content |-> EmptyObj])>>)]),
     Obj([candidates |-> Arr(<<Obj([content |-> Obj([parts |-> Arr(<<>>)])])>>)]),
     Obj([candidates |-> Arr(<<Obj([content |-> Obj([parts |-> Arr(<<EmptyObj>>)])])>>)]),
     Obj([candidates |-> Arr(<<Candidate(Null)>>)])}

(***************************************************************************)
(* State                                                                   *)
(***************************************************************************)
VARIABLES
    pc,          \* where each delivery's handler is: idle, fetch, json, mail, done
    event,       \* req.body
    donation,    \* the constants of the try block (capture, amount, name, email, message)
    aiMessage,   \* the constant aiMessage
    genCalls,    \* calls of generateThankYouMessage
    fetched,     \* the requests fetch was called with
    genOutcome,  \* how the call of the generative-text service ended
    genResult,   \* how generateThankYouMessage ended: generated, fallback, raised
    sent,        \* the arguments transporter.sendMail was called with
    mailResult,  \* how the send ended: pending, accepted, rejected
    responses,   \* the statuses sent with res.sendStatus
    probe,       \* the answer to the last GET /api/webhooks/paypal
    listening    \* the running server: its source file, process.env and port

vars == <<pc, event, donation, aiMessage, genCalls, fetched, genOutcome, genResult,
          sent, mailResult, responses, probe, listening>>

\* What the webhook handler for POST leaves alone.
server == <<probe, listening>>

StatusOK == 200
StatusError == 500

NoOutcome == [kind |-> "none", data |-> Undef]

(***************************************************************************)
(* The server: its start and the GET endpoint                              *)
(***************************************************************************)
DefaultPort == 3000

\* The two files of the repository that start the server.
ServerFiles == {"server.js", "part_000"}

\* process.env at the start: PORT unset, set, or set to the empty string.
Environments ==
    {EmptyObj, Obj([PORT |-> Lit("8080")]), Obj([PORT |-> Str(<<>>)])}

\* const PORT: server.js sets the number, part_000 reads process.env.PORT
\* first.
PORT(file, env) ==
    IF file = "server.js" THEN Num(DefaultPort)
    ELSE IF Truthy(Get(env, "PORT")) THEN Get(env, "PORT") ELSE Num(DefaultPort)

NotListening == [file |-> "none", env |-> EmptyObj, port |-> Undef]

\* app.listen(PORT, ...)
Listening(file, env) == [file |-> file, env |-> env, port |-> PORT(file, env)]

\* The requests of the GET endpoint: with and without a query.
GetRequests == {EmptyObj, Obj([query |-> Obj([token |-> Lit("abc")])])}

ProbeBody == "Webhook endpoint is active and listening for POST requests."

NoProbe == [status |-> 0, body |-> ""]

\* ProbeResponse with the query of the request sent back.
ProbeResponse_Echo(req) ==
    [status |-> StatusOK,
     body |-> IF req = EmptyObj THEN ProbeBody ELSE "abc"]

\* res.status(200).send(...) of the GET handler.
ProbeResponse(req) == [status |-> StatusOK, body |-> ProbeBody]

\* The state of the POST handlers.
handlers == <<pc, event, donation, aiMessage, genCalls, fetched, genOutcome,
              genResult, sent, mailResult, responses>>

\* No delivery has arrived, no GET was answered.
InitHandlers ==
    /\ pc = [d \in Deliveries |-> "idle"]
    /\ event = [d \in Deliveries |-> Undef]
    /\ donation = [d \in Deliveries |-> Undef]
    /\ aiMessage = [d \in Deliveries |-> Undef]
    /\ genCalls = [d \in Deliveries |-> 0]
    /\ fetched = [d \in Deliveries |-> <<>>]
    /\ genOutcome = [d \in Deliveries |-> NoOutcome]
    /\ genResult = [d \in Deliveries |-> "none"]
    /\ sent = [d \in Deliveries |-> <<>>]
    /\ mailResult = [d \in Deliveries |-> "none"]
    /\ responses = [d \in Deliveries |-> <<>>]
    /\ probe = NoProbe

\* The server runs, started from server.js without PORT in the environment.
Init ==
    /\ InitHandlers
    /\ listening = Listening("server.js", EmptyObj)

\* The process has not reached app.listen yet.
ServerInit ==
    /\ InitHandlers
    /\ listening = NotListening

\* The start of the process, from one of the two files.
Start ==
    /\ listening = NotListening
    /\ \E file \in ServerFiles, env \in Environments :
          listening' = Listening(file, env)
    /\ UNCHANGED <<handlers, probe>>

\* GET /api/webhooks/paypal
GetProbe ==
    /\ listening.file # "none"
    /\ \E req \in GetRequests : probe' = ProbeResponse(req)
    /\ UNCHANGED <<handlers, listening>>

\* SendStatus with a catch block that does not return: the 500 is followed
\* by the 200 at the end of the handler.
SendStatus_FallsThrough(d, status) ==
    /\ responses' = [responses EXCEPT ![d] =
                        IF status = StatusError
                        THEN Append(Append(@, StatusError), StatusOK)
                        ELSE Append(@, status)]
    /\ pc' = [pc EXCEPT ![d] = "done"]

\* SendStatus with a catch block that returns without answering.
SendStatus_Silent(d, status) ==
    /\ responses' = [responses EXCEPT ![d] =
                        IF status = StatusError THEN @ ELSE Append(@, status)]
    /\ pc' = [pc EXCEPT ![d] = "done"]

\* res.sendStatus(status) ends the handler.
SendStatus(d, status) ==
    /\ responses' = [responses EXCEPT ![d] = Append(@, status)]
    /\ pc' = [pc EXCEPT ![d] = "done"]

\* AfterGenerate with sendMail not awaited: the handler acknowledges at once.
AfterGenerate_NotAwaited(d, don, ai) ==
    LET mail == IF IsThrown(ai) THEN ai ELSE MailOptions(don, ai)
    IN  /\ aiMessage' = [aiMessage EXCEPT ![d] = IF IsThrown(ai) THEN Undef ELSE ai]
        /\ IF IsThrown(mail)
           THEN /\ SendStatus(d, StatusError)
                /\ UNCHANGED <<sent, mailResult>>
           ELSE /\ sent' = [sent EXCEPT ![d] = Append(@, mail)]
                /\ mailResult' = [mailResult EXCEPT ![d] = "pending"]
                /\ SendStatus(d, StatusOK)

\* AfterGenerate with the donor's data kept in variables of the module: the
\* delivery that arrived last has overwritten them.
AfterGenerate_SharedDonor(d, don, ai) ==
    LET others == {e \in Deliveries \ {d} : donation[e] # Undef}
        shared == IF others = {} THEN don ELSE donation[CHOOSE e \in others : TRUE]
        mail == IF IsThrown(ai) THEN ai ELSE MailOptions(shared, ai)
    IN  /\ aiMessage' = [aiMessage EXCEPT ![d] = IF IsThrown(ai) THEN Undef ELSE ai]
        /\ IF IsThrown(mail)
           THEN /\ SendStatus(d, StatusError)
                /\ UNCHANGED <<sent, mailResult>>
           ELSE /\ sent' = [sent EXCEPT ![d] = Append(@, mail)]
                /\ mailResult' = [mailResult EXCEPT ![d] = "pending"]
                /\ pc' = [pc EXCEPT ![d] = "mail"]
                /\ UNCHANGED responses

\* The handler from the return of generateThankYouMessage to the await of
\* sendMail: ai is the value the call resolved with, or the exception it
\* rejected with.
AfterGenerate(d, don, ai) ==
    LET mail == IF IsThrown(ai) THEN ai ELSE MailOptions(don, ai)
    IN  /\ aiMessage' = [aiMessage EXCEPT ![d] = IF IsThrown(ai) THEN Undef ELSE ai]
        /\ IF IsThrown(mail)
           THEN /\ SendStatus(d, StatusError)
                /\ UNCHANGED <<sent, mailResult>>
           ELSE /\ sent' = [sent EXCEPT ![d] = Append(@, mail)]
                /\ mailResult' = [mailResult EXCEPT ![d] = "pending"]
                /\ pc' = [pc EXCEPT ![d] = "mail"]
                /\ UNCHANGED responses

\* generateThankYouMessage settles: x is the outcome of its try block.
GenerateSettles(d, don, x, outcome) ==
    LET ai == CatchFallback(x, don.name, don.amount)
    IN  /\ genOutcome' = [genOutcome EXCEPT ![d] = outcome]
        /\ genResult' = [genResult EXCEPT ![d] =
                            IF ~IsThrown(x) THEN "generated"
                            ELSE IF IsThrown(ai) THEN "raised" ELSE "fallback"]
        /\ AfterGenerate(d, don, ai)

\* The handler called with the body ev, up to its first await.
Receive(d, ev) ==
    /\ event' = [event EXCEPT ![d] = ev]
    /\ IF ~IsCaptureCompleted(ev)
       THEN /\ SendStatus(d, StatusOK)
            /\ UNCHANGED <<donation, aiMessage, genCalls, fetched, genOutcome,
                           genResult, sent, mailResult>>
       ELSE LET don == ReadDonation(ev)
            IN  IF IsThrown(don)
                THEN /\ SendStatus(d, StatusError)
                     /\ UNCHANGED <<donation, aiMessage, genCalls, fetched,
                                    genOutcome, genResult, sent, mailResult>>
                ELSE LET prompt == BuildPrompt(don.name, don.amount, don.message)
                     IN  /\ donation' = [donation EXCEPT ![d] = don]
                         /\ genCalls' = [genCalls EXCEPT ![d] = @ + 1]
                         /\ IF IsThrown(prompt)
                            THEN /\ UNCHANGED fetched
                                 /\ GenerateSettles(d, don, prompt,
                                        [kind |-> "prompt", data |-> Undef])
                            ELSE /\ fetched' = [fetched EXCEPT ![d] =
                                                   Append(@, GeminiRequest(prompt))]
                                 /\ pc' = [pc EXCEPT ![d] = "fetch"]
                                 /\ UNCHANGED <<aiMessage, genOutcome, genResult,
                                                sent, mailResult, responses>>

\* Post with a guard the code does not have: a body whose transaction id was
\* delivered before is acknowledged without being processed.
Post_Deduplicated(d) ==
    /\ pc[d] = "idle"
    /\ listening.file # "none"
    /\ UNCHANGED server
    /\ \E ev \in Events :
          IF \E e \in Deliveries \ {d} :
                /\ pc[e] # "idle"
                /\ Get(Get(event[e], "resource"), "id") = Get(Get(ev, "resource"), "id")
          THEN /\ event' = [event EXCEPT ![d] = ev]
               /\ SendStatus(d, StatusOK)
               /\ UNCHANGED <<donation, aiMessage, genCalls, fetched, genOutcome,
                              genResult, sent, mailResult>>
          ELSE Receive(d, ev)

\* POST /api/webhooks/paypal: a delivery arrives.
Post(d) ==
    /\ pc[d] = "idle"
    /\ listening.file # "none"
    /\ UNCHANGED server
    /\ \E ev \in Events : Receive(d, ev)

\* FetchRejects with the request issued once more before the fallback.
FetchRejects_Retry(d) ==
    /\ pc[d] = "fetch"
    /\ UNCHANGED server
    /\ Len(fetched[d]) < 2
    /\ fetched' = [fetched EXCEPT ![d] = Append(@, @[Len(@)])]
    /\ UNCHANGED <<pc, event, donation, aiMessage, genCalls, genOutcome, genResult,
                   sent, mailResult, responses>>

\* fetch rejects: the service was not reached.
FetchRejects(d) ==
    /\ pc[d] = "fetch"
    /\ UNCHANGED server
    /\ GenerateSettles(d, donation[d], Thrown("FetchError"),
                       [kind |-> "transport", data |-> Undef])
    /\ UNCHANGED <<event, donation, genCalls, fetched>>

\* fetch resolves with a response whose ok is false.
FetchRespondsNotOk(d) ==
    /\ pc[d] = "fetch"
    /\ UNCHANGED server
    /\ GenerateSettles(d, donation[d], Thrown("Error"),
                       [kind |-> "status", data |-> Undef])
    /\ UNCHANGED <<event, donation, genCalls, fetched>>

\* fetch resolves with a success response: the handler awaits its body.
FetchRespondsOk(d) ==
    /\ pc[d] = "fetch"
    /\ UNCHANGED server
    /\ pc' = [pc EXCEPT ![d] = "json"]
    /\ UNCHANGED <<event, donation, aiMessage, genCalls, fetched, genOutcome,
                   genResult, sent, mailResult, responses>>

\* apiResponse.json() rejects: the body is not JSON.
JsonRejects(d) ==
    /\ pc[d] = "json"
    /\ UNCHANGED server
    /\ GenerateSettles(d, donation[d], Thrown("FetchError"),
                       [kind |-> "body", data |-> Undef])
    /\ UNCHANGED <<event, donation, genCalls, fetched>>

\* apiResponse.json() resolves with the parsed body.
JsonResolves(d) ==
    /\ pc[d] = "json"
    /\ UNCHANGED server
    /\ \E data \in ResponseBodies :
          GenerateSettles(d, donation[d], ExtractText(data),
                          [kind |-> "data", data |-> data])
    /\ UNCHANGED <<event, donation, genCalls, fetched>>

\* The transport sends to the envelope's recipients: without one it fails.
HasRecipient(mail) == mail.to.t = "string" /\ mail.to.s # <<>>

\* sendMail resolves; the handler leaves the try block and acknowledges.
SendMailResolves(d) ==
    /\ pc[d] = "mail"
    /\ UNCHANGED server
    /\ HasRecipient(sent[d][Len(sent[d])])
    /\ mailResult' = [mailResult EXCEPT ![d] = "accepted"]
    /\ SendStatus(d, StatusOK)
    /\ UNCHANGED <<event, donation, aiMessage, genCalls, fetched, genOutcome,
                   genResult, sent>>

\* SendMailRejects with a catch block that does not return: the handler goes
\* on to the acknowledgement.
SendMailRejects_Swallowed(d) ==
    /\ pc[d] = "mail"
    /\ UNCHANGED server
    /\ mailResult' = [mailResult EXCEPT ![d] = "rejected"]
    /\ SendStatus(d, StatusOK)
    /\ UNCHANGED <<event, donation, aiMessage, genCalls, fetched, genOutcome,
                   genResult, sent>>

\* sendMail rejects; the catch block of the handler answers.
SendMailRejects(d) ==
    /\ pc[d] = "mail"
    /\ UNCHANGED server
    /\ mailResult' = [mailResult EXCEPT ![d] = "rejected"]
    /\ SendStatus(d, StatusError)
    /\ UNCHANGED <<event, donation, aiMessage, genCalls, fetched, genOutcome,
                   genResult, sent>>

\* One step of the POST handler of delivery d.
Handle(d) ==
    \/ Post(d)
    \/ FetchRejects(d)
    \/ FetchRespondsNotOk(d)
    \/ FetchRespondsOk(d)
    \/ JsonRejects(d)
    \/ JsonResolves(d)
    \/ SendMailResolves(d)
    \/ SendMailRejects(d)

\* The POST endpoint of the running server, its deliveries in any
\* interleaving.
Next == \E d \in Deliveries : Handle(d)

Spec == Init /\ [][Next]_vars

\* The whole server from the start of the process, with one delivery.
ServerNext ==
    \/ Start
    \/ GetProbe
    \/ Handle("d1")

ServerSpec == ServerInit /\ [][ServerNext]_vars

\* The awaits of the handler: fetch, apiResponse.json() and sendMail.
WaitPoints == {"fetch", "json", "mail"}

\* An awaited promise of delivery d settles, resolved or rejected: the
\* handler goes on from its wait point to a later one or to its end.  This is
\* what each of FetchRejects, FetchRespondsNotOk, FetchRespondsOk, JsonRejects,
\* JsonResolves, SendMailResolves and SendMailRejects does to pc.
Settles(d) ==
    /\ pc[d] \in WaitPoints
    /\ \E next \in {"json", "mail", "done"} \ {pc[d]} : pc' = [pc EXCEPT ![d] = next]

\* No promise stays pending for ever.
FairSpec == Spec /\ \A d \in Deliveries : WF_pc(Settles(d))

(***************************************************************************)
(* What the properties speak about, read off the delivered body itself.    *)
(***************************************************************************)
Has(v, k) == v.t = "object" /\ k \in DOMAIN v.p

NonEmptyString(v) == v.t = "string" /\ v.s # <<>>

Recognized(ev) == Has(ev, "event_type") /\ ev.p.event_type = Lit(CaptureCompleted)

HasAmount(ev) ==
    /\ Has(ev, "resource")
    /\ Has(ev.p.resource, "amount")
    /\ Has(ev.p.resource.p.amount, "value")

HasCustomId(ev) ==
    /\ Has(ev, "resource")
    /\ Has(ev.p.resource, "purchase_units")
    /\ ev.p.resource.p.purchase_units.t = "array"
    /\ Len(ev.p.resource.p.purchase_units.a) > 0
    /\ Has(ev.p.resource.p.purchase_units.a[1], "custom_id")
    /\ ev.p.resource.p.purchase_units.a[1].p.custom_id.t = "string"
    /\ Len(ev.p.resource.p.purchase_units.a[1].p.custom_id.s) = 1

CustomIdText(ev) == ev.p.resource.p.purchase_units.a[1].p.custom_id.s[1]

\* The resource/purchase-unit path is there and custom_id is JSON.
HasMetadata(ev) ==
    /\ HasAmount(ev)
    /\ HasCustomId(ev)
    /\ CustomIdText(ev) \in DOMAIN JsonValue

Metadata(ev) == JsonValue[CustomIdText(ev)]

\* The metadata is a DonorIntent: name and email are non-empty strings.
ValidDonation(ev) ==
    /\ HasMetadata(ev)
    /\ Metadata(ev).t = "object"
    /\ Has(Metadata(ev), "name") /\ NonEmptyString(Metadata(ev).p.name)
    /\ Has(Metadata(ev), "email") /\ NonEmptyString(Metadata(ev).p.email)

\* ... and its optional message, when there, is a string.
WellFormed(ev) ==
    /\ ValidDonation(ev)
    /\ (Has(Metadata(ev), "message") => Metadata(ev).p.message.t = "string")

Contains(s, sub) ==
    \E i \in 0..(Len(s) - Len(sub)) : SubSeq(s, i + 1, i + Len(sub)) = sub

\* r is t without the whitespace at its two ends.
IsTrimOf(r, t) ==
    \E a, b \in 0..Len(t) :
        /\ a + b <= Len(t)
        /\ r = SubSeq(t, a + 1, Len(t) - b)
        /\ \A i \in 1..a : t[i] \in Whitespace
        /\ \A i \in (Len(t) - b + 1)..Len(t) : t[i] \in Whitespace
        /\ r # <<>> => (r[1] \notin Whitespace /\ r[Len(r)] \notin Whitespace)
        /\ r = <<>> => a + b = Len(t)

\* The body holds a first candidate with a text at content.parts[0].text.
HasExtractableText(data) ==
    /\ Has(data, "candidates")
    /\ data.p.candidates.t = "array"
    /\ Len(data.p.candidates.a) > 0
    /\ Has(data.p.candidates.a[1], "content")
    /\ Has(data.p.candidates.a[1].p.content, "parts")
    /\ data.p.candidates.a[1].p.content.p.parts.t = "array"
    /\ Len(data.p.candidates.a[1].p.content.p.parts.a) > 0
    /\ Has(data.p.candidates.a[1].p.content.p.parts.a[1], "text")
    /\ data.p.candidates.a[1].p.content.p.parts.a[1].p.text.t = "string"

FirstText(data) == data.p.candidates.a[1].p.content.p.parts.a[1].p.text.s

\* The external call failed or its answer is malformed.
GenerationFault(d) ==
    \/ genOutcome[d].kind \in {"transport", "status", "body"}
    \/ genOutcome[d].kind = "data" /\ ~HasExtractableText(genOutcome[d].data)

\* A value no template literal can convert to a string.
Unconvertible(v) == v.t = "object" /\ "toString" \in DOMAIN v.p

(***************************************************************************)
(* Properties                                                              *)
(***************************************************************************)

\* C1: a delivery whose metadata lacks name or lacks email is answered 500 and
\* sendMail is never called for it.
C1_MissingFieldFails ==
    \A d \in Deliveries :
        ( /\ pc[d] # "idle"
          /\ Recognized(event[d])
          /\ HasMetadata(event[d])
          /\ Metadata(event[d]).t = "object"
          /\ (~Has(Metadata(event[d]), "name") \/ ~Has(Metadata(event[d]), "email")) )
        => /\ sent[d] = <<>>
           /\ pc[d] = "done" => responses[d] = <<StatusError>>

\* C2: for a capture-completed delivery with well-formed metadata sendMail is
\* called exactly once, and the acknowledgement in the e-mail is not empty,
\* whatever the generative-text service answers.
C2_OneMailNonEmptyAck ==
    \A d \in Deliveries :
        (pc[d] # "idle" /\ Recognized(event[d]) /\ WellFormed(event[d]))
        => /\ Len(sent[d]) <= 1
           /\ pc[d] = "done" => Len(sent[d]) = 1
           /\ sent[d] # <<>> => NonEmptyString(aiMessage[d])

\* The part of C2 the code keeps: exactly one call of sendMail.
C2_ExactlyOneMail ==
    \A d \in Deliveries :
        (pc[d] # "idle" /\ Recognized(event[d]) /\ WellFormed(event[d]))
        => /\ Len(sent[d]) <= 1
           /\ pc[d] \in {"mail", "done"} => Len(sent[d]) = 1

\* C3: a delivery of any other event type calls neither
\* generateThankYouMessage (so no request goes to the generative-text service)
\* nor sendMail, and is answered 200.
C3_UnrecognizedIgnored ==
    \A d \in Deliveries :
        (pc[d] # "idle" /\ ~Recognized(event[d]))
        => /\ genCalls[d] = 0
           /\ fetched[d] = <<>>
           /\ sent[d] = <<>>
           /\ pc[d] = "done"
           /\ responses[d] = <<StatusOK>>

C3_Witness ==
    \E d \in Deliveries :
        /\ pc[d] = "done"
        /\ ~Recognized(event[d])
        /\ ValidDonation(event[d])
        /\ responses[d] = <<StatusOK>>

\* C4: every call of sendMail belongs to one validated capture-completed
\* delivery whose DonorIntent holds a non-empty email, the recipient.
C4_MailOnlyWithEmail ==
    \A d \in Deliveries :
        sent[d] # <<>>
        => /\ Len(sent[d]) = 1
           /\ Recognized(event[d])
           /\ ValidDonation(event[d])
           /\ sent[d][1].to = Metadata(event[d]).p.email

\* C5: generateThankYouMessage never raises, and for every failed or
\* malformed outcome of the external call it returns the fallback string, which
\* contains the donor's name and the amount.
C5_FaultGivesFallback ==
    \A d \in Deliveries :
        /\ genResult[d] # "raised"
        /\ (genCalls[d] > 0 /\ pc[d] \in {"mail", "done"})
           => genResult[d] \in {"generated", "fallback"}
        /\ GenerationFault(d)
           => /\ genResult[d] = "fallback"
              /\ aiMessage[d].t = "string"
              /\ Head(aiMessage[d].s) = FallbackHead
              /\ aiMessage[d].s[Len(aiMessage[d].s)] = FallbackTail
              /\ Contains(aiMessage[d].s, JsToString(donation[d].name).s)
              /\ Contains(aiMessage[d].s, JsToString(donation[d].amount).s)

C5_Witness ==
    \E d, e \in Deliveries :
        /\ genOutcome[d].kind = "data"
        /\ ~HasExtractableText(genOutcome[d].data)
        /\ genResult[d] = "fallback"
        /\ NonEmptyString(donation[d].name)
        /\ genOutcome[e].kind \in {"transport", "status", "body"}
        /\ genResult[e] = "fallback"

\* C6: on a success response whose first candidate carries a text,
\* generateThankYouMessage returns that text trimmed, and not the fallback.
C6_ReturnsTrimmedCandidate ==
    \A d \in Deliveries :
        (genOutcome[d].kind = "data" /\ HasExtractableText(genOutcome[d].data))
        => /\ genResult[d] = "generated"
           /\ aiMessage[d].t = "string"
           /\ IsTrimOf(aiMessage[d].s, FirstText(genOutcome[d].data))

C6_Witness ==
    \E d \in Deliveries :
        /\ genOutcome[d].kind = "data"
        /\ HasExtractableText(genOutcome[d].data)
        /\ FirstText(genOutcome[d].data) # <<>>
        /\ Head(FirstText(genOutcome[d].data)) \in Whitespace
        /\ NonEmptyString(aiMessage[d])
        /\ aiMessage[d].s # FirstText(genOutcome[d].data)

\* C7: the answer is 500 exactly when validation of the recognized event
\* fails or the mail send fails, and 200 otherwise.
C7_FailureIffValidationOrDelivery ==
    \A d \in Deliveries :
        pc[d] = "done"
        => /\ responses[d] \in {<<StatusOK>>, <<StatusError>>}
           /\ responses[d] = <<StatusError>>
              <=> /\ Recognized(event[d])
                  /\ (~ValidDonation(event[d]) \/ mailResult[d] = "rejected")

\* The part of C7 the code keeps: two deliveries of the same event whose mail
\* send ended the same way are answered the same, however generation ended.
C7_GenerationAbsorbed ==
    \A d, e \in Deliveries :
        (pc[d] = "done" /\ pc[e] = "done" /\ event[d] = event[e]
            /\ mailResult[d] = mailResult[e])
        => responses[d] = responses[e]

\* C8: a recognized delivery whose resource/purchase-unit path is absent or
\* whose custom_id is not JSON is answered 500, and neither the generative-text
\* service nor the mail transport is called for it.
C8_UnreadableFailsEarly ==
    \A d \in Deliveries :
        (pc[d] # "idle" /\ Recognized(event[d]) /\ ~HasMetadata(event[d]))
        => /\ pc[d] = "done"
           /\ responses[d] = <<StatusError>>
           /\ genCalls[d] = 0
           /\ fetched[d] = <<>>
           /\ sent[d] = <<>>

C8_Witness ==
    \E d, e \in Deliveries :
        /\ pc[d] = "done" /\ Recognized(event[d])
        /\ HasCustomId(event[d]) /\ CustomIdText(event[d]) = TxtNotJson
        /\ responses[d] = <<StatusError>>
        /\ pc[e] = "done" /\ Recognized(event[e])
        /\ ~HasCustomId(event[e])
        /\ responses[e] = <<StatusError>>

\* C9: when the mail transport rejects the send, the answer is 500 although
\* generation succeeded, and sendMail was called once only.
C9_RejectedSendFails ==
    \A d \in Deliveries :
        mailResult[d] = "rejected"
        => /\ pc[d] = "done"
           /\ responses[d] = <<StatusError>>
           /\ Len(sent[d]) = 1

C9_Witness ==
    \E d \in Deliveries :
        /\ mailResult[d] = "rejected"
        /\ genResult[d] = "generated"
        /\ WellFormed(event[d])
        /\ responses[d] = <<StatusError>>

\* C10, as stated: every call of generateThankYouMessage issues exactly one
\* request to the generative-text service.
C10_ExactlyOneRequest ==
    \A d \in Deliveries :
        genCalls[d] > 0 => Len(fetched[d]) = genCalls[d]

\* C10, amended: a call issues at most one request and none after a failure;
\* it issues one exactly when the prompt can be built, that is unless the
\* donor's message is a value that cannot be converted to a string.
C10_OneRequestIfPromptBuilt ==
    \A d \in Deliveries :
        /\ genCalls[d] <= 1
        /\ Len(fetched[d]) =
              IF genCalls[d] = 1 /\ ~Unconvertible(donation[d].message) THEN 1 ELSE 0

C10_Witness ==
    \E d, e \in Deliveries :
        /\ genOutcome[d].kind = "transport"
        /\ genResult[d] = "fallback"
        /\ Len(fetched[d]) = 1
        /\ genCalls[e] = 1
        /\ genOutcome[e].kind = "prompt"
        /\ genResult[e] = "fallback"
        /\ fetched[e] = <<>>

(***************************************************************************)
(* C11: a redelivered event is processed again.  Whenever the same valid   *)
(* recognized event has been delivered twice, each delivery has invoked    *)
(* the generator once on its own and, once past generation, has dispatched *)
(* one email of its own: nothing keyed on the transaction id stops the     *)
(* second.                                                                 *)
(***************************************************************************)
SameEventTwice(d, e) ==
    /\ d # e
    /\ pc[d] # "idle" /\ pc[e] # "idle"
    /\ event[d] = event[e]
    /\ Recognized(event[d]) /\ WellFormed(event[d])

C11_RedeliveryNotDeduplicated ==
    \A d, e \in Deliveries :
        SameEventTwice(d, e) =>
            /\ genCalls[d] = 1 /\ genCalls[e] = 1
            /\ pc[d] \in {"mail", "done"} => Len(sent[d]) = 1
            /\ (pc[d] \in {"mail", "done"} /\ pc[e] \in {"mail", "done"})
                  => Len(sent[d]) + Len(sent[e]) = 2

\* Two emails for one donation have been accepted.
C11_Witness ==
    \E d, e \in Deliveries :
        /\ SameEventTwice(d, e)
        /\ mailResult[d] = "accepted" /\ mailResult[e] = "accepted"
        /\ Len(sent[d]) = 1 /\ Len(sent[e]) = 1
        /\ sent[d][1] = sent[e][1] \/ aiMessage[d] # aiMessage[e]

(***************************************************************************)
(* C12: the GET probe.  Every answer to a GET on the webhook path is 200   *)
(* with the one static body, whatever the request holds and whatever the   *)
(* POST handler is doing at that moment, and answering it leaves every     *)
(* delivery untouched: no generator call, no request, no email.            *)
(***************************************************************************)
StaticProbe ==
    [status |-> 200,
     body |-> "Webhook endpoint is active and listening for POST requests."]

C12_ProbeStaticAndInert ==
    /\ [](probe \in {NoProbe, StaticProbe})
    /\ [][probe' # probe => UNCHANGED <<pc, event, donation, aiMessage, genCalls,
                                        fetched, genOutcome, genResult, sent,
                                        mailResult, responses>>]_vars

\* The probe is answered while a delivery is waiting for an external call.
C12_Witness ==
    /\ probe = StaticProbe
    /\ pc["d1"] \in {"fetch", "json", "mail"}
    /\ genCalls["d1"] = 1

(***************************************************************************)
(* C13: the life of a delivery.  A delivery moves Received -> Filtered, or *)
(* Received -> Validated -> Generating -> Dispatching -> Completed, and    *)
(* fails only after Received and only for a recognized event.  sendMail is *)
(* never called before generateThankYouMessage has returned, and the       *)
(* message in the email is the very value that call returned.              *)
(***************************************************************************)
\* What the email shows between the opening and the closing of its message.
MessageOf(html) ==
    LET opens == {i \in 1..Len(html) : html[i] = HtmlMessageOpen}
        i == CHOOSE i \in opens : \A j \in opens : j <= i
    IN  SubSeq(html, i + 1, Len(html) - 1)

PhaseSteps ==
    {<<"idle", "done">>, <<"idle", "fetch">>, <<"idle", "mail">>,
     <<"fetch", "json">>, <<"fetch", "mail">>, <<"fetch", "done">>,
     <<"json", "mail">>, <<"json", "done">>,
     <<"mail", "done">>}

C13_PhaseOrder ==
    /\ [](\A d \in Deliveries :
            /\ pc[d] \in {"fetch", "json"}
               => (sent[d] = <<>> /\ genResult[d] = "none" /\ responses[d] = <<>>)
            /\ (pc[d] # "idle" /\ ~Recognized(event[d]))
               => (pc[d] = "done" /\ responses[d] = <<200>> /\ genCalls[d] = 0)
            /\ (pc[d] = "done" /\ responses[d] = <<500>>) => Recognized(event[d])
            /\ sent[d] # <<>>
               => /\ genCalls[d] = 1
                  /\ genResult[d] \in {"generated", "fallback"}
                  /\ aiMessage[d].t = "string"
                  /\ sent[d][1].html.t = "string"
                  /\ sent[d][1].html.s[Len(sent[d][1].html.s)] = HtmlMessageClose
                  /\ MessageOf(sent[d][1].html.s) = aiMessage[d].s)
    /\ [][\A d \in Deliveries :
            /\ pc'[d] # pc[d] => <<pc[d], pc'[d]>> \in PhaseSteps
            /\ sent'[d] # sent[d]
               => (sent[d] = <<>> /\ pc'[d] = "mail"
                   /\ genResult'[d] \in {"generated", "fallback"})]_vars

\* An email carrying a generated message has gone out after both awaits of
\* the generator, and another delivery has failed.
C13_Witness ==
    \E d, e \in Deliveries :
        /\ pc[d] = "done" /\ responses[d] = <<200>>
        /\ genResult[d] = "generated" /\ genOutcome[d].kind = "data"
        /\ Len(sent[d]) = 1
        /\ MessageOf(sent[d][1].html.s) = aiMessage[d].s
        /\ aiMessage[d].s # <<>>
        /\ pc[e] = "done" /\ responses[e] = <<500>> /\ Len(sent[e]) = 1

(***************************************************************************)
(* C14: the acknowledgment comes last.  For a recognized event the 200 is  *)
(* sent only after sendMail was called and has resolved; while the send is *)
(* pending nothing has been answered, and after a rejected send no 200 is  *)
(* ever sent.                                                              *)
(***************************************************************************)
Answered(d, status) == \E i \in 1..Len(responses[d]) : responses[d][i] = status

C14_AckOnlyAfterDelivery ==
    \A d \in Deliveries :
        (pc[d] # "idle" /\ Recognized(event[d]))
        => /\ Answered(d, 200) => (Len(sent[d]) = 1 /\ mailResult[d] = "accepted")
           /\ mailResult[d] = "pending" => responses[d] = <<>>
           /\ mailResult[d] = "rejected" => ~Answered(d, 200)

\* One delivery has been acknowledged after its email was accepted while the
\* other is still waiting for sendMail, unanswered.
C14_Witness ==
    \E d, e \in Deliveries :
        /\ Recognized(event[d])
        /\ pc[d] = "done" /\ responses[d] = <<200>> /\ mailResult[d] = "accepted"
        /\ Recognized(event[e])
        /\ pc[e] = "mail" /\ mailResult[e] = "pending" /\ responses[e] = <<>>

(***************************************************************************)
(* C15: deliveries do not touch each other.  For every delivery of a valid *)
(* donation, the recipient, the name, the amount and the transaction id of *)
(* its email are those of its own body, the message is what its own call   *)
(* of the generator gave (the trimmed text of its own response, or the     *)
(* fallback with its own name and amount), and its status follows from its *)
(* own send alone, whatever the other delivery carries or does.            *)
(***************************************************************************)
OwnName(d) == Metadata(event[d]).p.name.s
OwnEmail(d) == Metadata(event[d]).p.email
OwnAmount(d) == event[d].p.resource.p.amount.p.value.s
OwnId(d) == event[d].p.resource.p.id.s

OwnMessageGiven(d) ==
    IF genOutcome[d].kind = "data" /\ HasExtractableText(genOutcome[d].data)
    THEN IsTrimOf(aiMessage[d].s, FirstText(genOutcome[d].data))
    ELSE aiMessage[d].s =
            <<FallbackHead>> \o OwnAmount(d) \o <<", ">> \o OwnName(d) \o <<FallbackTail>>

C15_DeliveriesIndependent ==
    \A d \in Deliveries :
        (pc[d] # "idle" /\ Recognized(event[d]) /\ WellFormed(event[d]))
        => /\ pc[d] \in {"mail", "done"}
              => /\ Len(sent[d]) = 1
                 /\ sent[d][1].to = OwnEmail(d)
                 /\ aiMessage[d].t = "string"
                 /\ OwnMessageGiven(d)
                 /\ sent[d][1].html.s =
                       <<HtmlDear>> \o OwnName(d) \o <<HtmlGrateful>> \o OwnAmount(d)
                       \o <<HtmlCause, Cause, HtmlTransaction>> \o OwnId(d)
                       \o <<HtmlMessageOpen>> \o aiMessage[d].s \o <<HtmlMessageClose>>
           /\ pc[d] = "done"
              => responses[d] = <<IF mailResult[d] = "accepted" THEN 200 ELSE 500>>

\* Two donors at once: each email went to its own donor, one with the text of
\* its own response, the other with its own fallback, one accepted and one not.
C15_Witness ==
    \E d, e \in Deliveries :
        /\ pc[d] = "done" /\ pc[e] = "done"
        /\ WellFormed(event[d]) /\ WellFormed(event[e])
        /\ OwnEmail(d) # OwnEmail(e)
        /\ Len(sent[d]) = 1 /\ Len(sent[e]) = 1
        /\ sent[d][1].to = OwnEmail(d) /\ sent[e][1].to = OwnEmail(e)
        /\ genResult[d] = "generated" /\ genResult[e] = "fallback"
        /\ responses[d] = <<200>> /\ responses[e] = <<500>>

(***************************************************************************)
(* C16: one answer per POST.  A delivery whose handler has finished has    *)
(* sent exactly one response, a 200 or a 500; a delivery still being       *)
(* handled has sent none.                                                  *)
(***************************************************************************)
C16_ExactlyOneResponse ==
    \A d \in Deliveries :
        /\ pc[d] = "done" => (Len(responses[d]) = 1 /\ responses[d][1] \in {200, 500})
        /\ pc[d] # "done" => responses[d] = <<>>

\* Both kinds of answer have been given, the 500 after the catch block ran
\* with an email already handed to sendMail.
C16_Witness ==
    \E d, e \in Deliveries :
        /\ pc[d] = "done" /\ responses[d] = <<500>> /\ mailResult[d] = "rejected"
        /\ pc[e] = "done" /\ responses[e] = <<200>>

(***************************************************************************)
(* C17: every delivery ends.  If the external calls always settle, each    *)
(* delivery that has arrived eventually reaches its end with its response  *)
(* sent; until then it is waiting for the generative-text service (the     *)
(* request or its body) or for sendMail, and for nothing else.             *)
(***************************************************************************)
C17_EveryDeliveryEnds ==
    /\ [](\A d \in Deliveries : pc[d] \in {"idle", "fetch", "json", "mail", "done"})
    /\ \A d \in Deliveries :
          (pc[d] # "idle") ~> (pc[d] = "done" /\ Len(responses[d]) = 1)

\* A delivery has gone through all three waits and ended; another has ended
\* in the catch block.
C17_Witness ==
    \E d, e \in Deliveries :
        /\ pc[d] = "done" /\ Len(responses[d]) = 1
        /\ genOutcome[d].kind = "data" /\ mailResult[d] = "accepted"
        /\ pc[e] = "done" /\ responses[e] = <<500>> /\ sent[e] = <<>>

(***************************************************************************)
(* C18: the fallback depends on the name and the amount only.  Two calls   *)
(* of the generator that fell back for donors of the same name and amount  *)
(* returned the same string, whichever fault each met and whatever message *)
(* each donor had written; and that string is the fixed sentence around    *)
(* the amount and the name.                                                *)
(***************************************************************************)
C18_FallbackOfNameAndAmount ==
    \A d, e \in Deliveries :
        (/\ genResult[d] = "fallback" /\ genResult[e] = "fallback"
         /\ donation[d].name = donation[e].name
         /\ donation[d].amount = donation[e].amount)
        => /\ aiMessage[d] = aiMessage[e]
           /\ (donation[d].name.t = "string" /\ donation[d].amount.t = "string")
              => aiMessage[d].s = <<FallbackHead>> \o donation[d].amount.s \o <<", ">>
                                  \o donation[d].name.s \o <<FallbackTail>>

\* The same donor twice, once with a message and once without, one call
\* failing in transport and the other on a malformed answer: one fallback.
C18_Witness ==
    \E d, e \in Deliveries :
        /\ genResult[d] = "fallback" /\ genResult[e] = "fallback"
        /\ genOutcome[d].kind = "transport" /\ genOutcome[e].kind = "data"
        /\ NonEmptyString(donation[d].name)
        /\ donation[d].name = donation[e].name
        /\ donation[d].amount = donation[e].amount
        /\ donation[d].message # donation[e].message
        /\ aiMessage[d] = aiMessage[e]

(***************************************************************************)
(* C19: the prompt.  Every prompt sent to the generative-text service      *)
(* names the donor and the amount and ends with the two-sentence cap; it   *)
(* carries the instruction to weave in the donor's message, with that      *)
(* message, exactly when the donor left a non-empty message.               *)
(***************************************************************************)
PromptOf(d) == fetched[d][1].text.s

C19_PromptEmbedsDonation ==
    \A d \in Deliveries :
        fetched[d] # <<>>
        => /\ fetched[d][1].text.t = "string"
           /\ Head(PromptOf(d)) = PromptHead
           /\ donation[d].name.t = "string" /\ donation[d].amount.t = "string"
              => Contains(PromptOf(d), <<PromptHead>> \o donation[d].name.s
                                       \o <<PromptDonated>> \o donation[d].amount.s)
           /\ PromptOf(d)[Len(PromptOf(d))] = PromptCap
           /\ Contains(PromptOf(d), <<PromptMessageOpen>>)
              <=> NonEmptyString(donation[d].message)
           /\ NonEmptyString(donation[d].message)
              => Contains(PromptOf(d), <<PromptMessageOpen>> \o donation[d].message.s
                                       \o <<PromptMessageClose, PromptCap>>)

\* One prompt with the donor's message woven in, one for an empty message and
\* one for no message at all, both without the instruction.
C19_Witness ==
    \E d, e \in Deliveries :
        /\ fetched[d] # <<>> /\ fetched[e] # <<>>
        /\ NonEmptyString(donation[d].message)
        /\ Contains(PromptOf(d), <<PromptMessageOpen>> \o donation[d].message.s)
        /\ donation[e].message \in {Str(<<>>), Undef}
        /\ ~Contains(PromptOf(e), <<PromptMessageOpen>>)
        /\ NonEmptyString(donation[e].name)
        /\ Contains(PromptOf(e), donation[e].name.s)

(***************************************************************************)
(* C20: the listening port.  A started server listens on the port the      *)
(* environment provides when PORT is set there, and on 3000 only when it   *)
(* is not (an empty PORT counting as not set).                             *)
(***************************************************************************)
PortProvided(env) == Has(env, "PORT") /\ NonEmptyString(env.p.PORT)

C20_ListensOnEnvPort ==
    listening.file # "none"
    => listening.port = IF PortProvided(listening.env)
                        THEN listening.env.p.PORT
                        ELSE Num(3000)

\* The same, of the server started from part_000 alone.
C20_Part000ListensOnEnvPort ==
    listening.file = "part_000"
    => listening.port = IF PortProvided(listening.env)
                        THEN listening.env.p.PORT
                        ELSE Num(3000)

\* server.js started with PORT=8080 listens on 3000.
C20_ServerJsIgnoresEnv ==
    /\ listening.file = "server.js"
    /\ PortProvided(listening.env)
    /\ listening.port = Num(3000)

====
